---- MODULE Spec2Model ----
(***************************************************************************)
(* Model of scripts/init-devcontainer.py: one run of the script loads the  *)
(* .env file (creating the default one when it is absent), substitutes the *)
(* two placeholder tokens into the template, validates the result as JSON, *)
(* writes devcontainer.json, exports the mapping to the process            *)
(* environment and verifies the written file.                              *)
(*                                                                         *)
(* Texts are strings, handled character by character with Len, SubSeq and  *)
(* \o.  Files are records [exists, text].                                  *)
(***************************************************************************)
EXTENDS Integers, Sequences, FiniteSets, TLC

VARIABLES
    pc,             \* position of the running process in the script
    envFile,        \* the .env file
    templateFile,   \* devcontainer.template.json
    outFile,        \* devcontainer.json
    environ,        \* os.environ of the running process
    env_vars,       \* main: the mapping returned by load_env_file
    workspace_name, \* generate_devcontainer: local
    diamond_name,   \* generate_devcontainer: local
    output,         \* generate_devcontainer: the substituted text
    config,         \* verify_generated_config: the re-read JSON value
    verified,       \* main: what verify_generated_config returned
    exitStatus,     \* exit status of the process, -1 while it runs
    fault,          \* which exit path of the script was taken
    written,        \* f.write(output) of the current run has returned
    run,            \* number of the current run of the script
    envAtStart,     \* the .env file when the current run started
    outAtStart,     \* devcontainer.json when the current run started
    environAtStart, \* os.environ when the current run started
    lastGood        \* devcontainer.json after the latest run that exited 0

vars == <<pc, envFile, templateFile, outFile, environ, env_vars,
          workspace_name, diamond_name, output, config, verified,
          exitStatus, fault, written, run, envAtStart, outAtStart, environAtStart,
          lastGood>>

---------------------------------------------------------------------------
(* Bounds *)

MaxRuns == 2
MaxLines == 2
MaxIdLen == 2

---------------------------------------------------------------------------
(* Characters and strings (Python str methods) *)

Letters ==
    {"a","b","c","d","e","f","g","h","i","j","k","l","m",
     "n","o","p","q","r","s","t","u","v","w","x","y","z",
     "A","B","C","D","E","F","G","H","I","J","K","L","M",
     "N","O","P","Q","R","S","T","U","V","W","X","Y","Z"}

Digits == {"0","1","2","3","4","5","6","7","8","9"}

\* str.strip() with no argument strips these (of the characters modelled)
Whitespace == {" ", "\t", "\n", "\r"}

\* s[i], the empty string outside the string (s[i:i+1])
CharAt(s, i) == IF i >= 1 /\ i <= Len(s) THEN SubSeq(s, i, i) ELSE ""

\* s[i:] with a 1-based index
From(s, i) == SubSeq(s, i, Len(s))

\* str.startswith
StartsWith(s, t) == Len(t) <= Len(s) /\ SubSeq(s, 1, Len(t)) = t

\* str.endswith
EndsWith(s, t) == Len(t) <= Len(s) /\ SubSeq(s, Len(s) - Len(t) + 1, Len(s)) = t

\* t occurs in s at 1-based position i
OccursAt(s, t, i) == i >= 1 /\ i + Len(t) - 1 <= Len(s) /\ SubSeq(s, i, i + Len(t) - 1) = t

\* str.find from position i: the first position >= i where t occurs, 0 if none
Find(s, t, i) ==
    LET at == {j \in i..(Len(s) - Len(t) + 1) : SubSeq(s, j, j + Len(t) - 1) = t}
    IN IF at = {} THEN 0 ELSE CHOOSE j \in at : \A k \in at : j <= k

\* the first position >= i of s that holds a character of the set cs, or
\* Len(s) + 1
FirstIn(s, cs, i) ==
    LET at == {j \in i..Len(s) : SubSeq(s, j, j) \in cs}
    IN IF at = {} THEN Len(s) + 1 ELSE CHOOSE j \in at : \A k \in at : j <= k

\* the first position >= i of s that holds no character of the set cs, or
\* Len(s) + 1
FirstNotIn(s, cs, i) ==
    LET at == {j \in i..Len(s) : SubSeq(s, j, j) \notin cs}
    IN IF at = {} THEN Len(s) + 1 ELSE CHOOSE j \in at : \A k \in at : j <= k

\* the last position of s that holds no character of the set cs, or 0
LastNotIn(s, cs) ==
    LET at == {j \in 1..Len(s) : SubSeq(s, j, j) \notin cs}
    IN IF at = {} THEN 0 ELSE CHOOSE j \in at : \A k \in at : j >= k

\* the `in` operator on two str
Contains(s, t) == Find(s, t, 1) # 0

\* str.count: non-overlapping occurrences, left to right
RECURSIVE CountFrom(_, _, _)
CountFrom(s, t, i) ==
    LET j == Find(s, t, i)
    IN IF j = 0 THEN 0 ELSE 1 + CountFrom(s, t, j + Len(t))

Count(s, t) == CountFrom(s, t, 1)

\* str.replace(old, new) for a non-empty old: every non-overlapping
\* occurrence, found left to right, is replaced; the inserted text is not
\* scanned again
RECURSIVE ReplaceFrom(_, _, _, _)
ReplaceFrom(s, old, new, i) ==
    LET j == Find(s, old, i)
    IN IF j = 0 THEN From(s, i)
       ELSE SubSeq(s, i, j - 1) \o new \o ReplaceFrom(s, old, new, j + Len(old))

Replace(s, old, new) == ReplaceFrom(s, old, new, 1)

\* str.strip()
Strip(s) == SubSeq(s, FirstNotIn(s, Whitespace, 1), LastNotIn(s, Whitespace))

\* str.isalnum(): non-empty and every character a letter or a digit
IsAlnum(s) == Len(s) > 0 /\ \A i \in 1..Len(s) : CharAt(s, i) \in Letters \cup Digits

\* The lines a text file yields when iterated (universal newlines); the
\* terminators are dropped here, line.strip() drops them in the code
RECURSIVE SplitLinesFrom(_, _)
SplitLinesFrom(s, start) ==
    LET i == FirstIn(s, {"\n", "\r"}, start)
        n == IF CharAt(s, i) = "\r" /\ CharAt(s, i + 1) = "\n" THEN i + 2 ELSE i + 1
    IN IF start > Len(s) THEN <<>>
       ELSE IF i > Len(s) THEN <<SubSeq(s, start, Len(s))>>
       ELSE <<SubSeq(s, start, i - 1)>> \o SplitLinesFrom(s, n)

SplitLines(s) == SplitLinesFrom(s, 1)

---------------------------------------------------------------------------
(* dict: an insertion-ordered sequence of [key, value] with unique keys *)

EmptyDict == <<>>

HasKey(d, k) == \E i \in 1..Len(d) : d[i].key = k

Lookup(d, k) == d[CHOOSE i \in 1..Len(d) : d[i].key = k].value

\* d[k] = v: an existing key keeps its position
DictSet(d, k, v) ==
    IF HasKey(d, k)
    THEN [i \in 1..Len(d) |-> IF d[i].key = k THEN [key |-> k, value |-> v] ELSE d[i]]
    ELSE Append(d, [key |-> k, value |-> v])

\* `d.get(k) or default`: an empty value falls back to the default too
GetOrDefault(d, k, default) ==
    IF HasKey(d, k) /\ Lookup(d, k) # "" THEN Lookup(d, k) ELSE default

\* d.get(k, default)
Get(d, k, default) == IF HasKey(d, k) THEN Lookup(d, k) ELSE default

---------------------------------------------------------------------------
(* load_env_file *)

\* "Remove quotes if present"
StripQuotes(value) ==
    IF StartsWith(value, "\"") /\ EndsWith(value, "\"") THEN SubSeq(value, 2, Len(value) - 1)
    ELSE IF StartsWith(value, "'") /\ EndsWith(value, "'") THEN SubSeq(value, 2, Len(value) - 1)
    ELSE value

\* the body of the for loop for one line
ParseLine(d, rawLine) ==
    LET line == Strip(rawLine)
    IN IF line = "" \/ StartsWith(line, "#") THEN d
       ELSE IF Contains(line, "=")
       THEN LET p == Find(line, "=", 1)
                key == Strip(SubSeq(line, 1, p - 1))
                value == Strip(From(line, p + 1))
            IN DictSet(d, key, StripQuotes(value))
       ELSE d

RECURSIVE ParseLines(_, _, _)
ParseLines(d, lines, i) ==
    IF i > Len(lines) THEN d
    ELSE ParseLines(ParseLine(d, lines[i]), lines, i + 1)

ParseEnv(text) == ParseLines(EmptyDict, SplitLines(text), 1)

---------------------------------------------------------------------------
(* json.loads: the decoder of the Python standard library, on the texts of *)
(* the model (no \u, \b escapes).  A JSON value is a record tagged by t:       *)
(*   "object" with members (a function from the keys, the last duplicate   *)
(*   wins), "array" with items, "string" with s (the decoded text),        *)
(*   "number" with s (the literal), "const" with s (null, true, false,     *)
(*   NaN, Infinity, -Infinity).                                            *)

JsonWhitespace == {" ", "\t", "\n", "\r"}

Fail == [ok |-> FALSE, v |-> [t |-> "none"], end |-> 0]

Ok(v, end) == [ok |-> TRUE, v |-> v, end |-> end]

NoMembers == [k \in {} |-> [t |-> "none"]]

PutMember(m, k, v) == [x \in DOMAIN m \cup {k} |-> IF x = k THEN v ELSE m[x]]

SkipWs(s, i) == FirstNotIn(s, JsonWhitespace, i)

DigitsEnd(s, i) == FirstNotIn(s, Digits, i)

\* NUMBER_RE.match(s, i): the position after the match, 0 when none
NumberEnd(s, i) ==
    LET j == IF CharAt(s, i) = "-" THEN i + 1 ELSE i
        k == IF CharAt(s, j) = "0" THEN j + 1
             ELSE IF CharAt(s, j) \in Digits THEN DigitsEnd(s, j)
             ELSE 0
        f == IF k # 0 /\ CharAt(s, k) = "." /\ DigitsEnd(s, k + 1) > k + 1
             THEN DigitsEnd(s, k + 1) ELSE k
        m == IF CharAt(s, f + 1) \in {"+", "-"} THEN f + 2 ELSE f + 1
    IN IF k = 0 THEN 0
       ELSE IF CharAt(s, f) \in {"e", "E"} /\ DigitsEnd(s, m) > m THEN DigitsEnd(s, m)
       ELSE f

Unescape(c) ==
    CASE c = "\"" -> "\""
      [] c = "\\" -> "\\"
      [] c = "/" -> "/"
      [] c = "n" -> "\n"
      [] c = "r" -> "\r"
      [] c = "t" -> "\t"
      [] c = "f" -> "\f"
      [] OTHER -> ""

\* py_scanstring (strict): i is the position after the opening quote
RECURSIVE ScanString(_, _, _)
ScanString(s, i, acc) ==
    LET j == FirstIn(s, {"\"", "\\", "\t", "\n", "\r", "\f"}, i)
        c == CharAt(s, j)
        chunk == acc \o SubSeq(s, i, j - 1)
    IN IF c = "\"" THEN Ok(chunk, j + 1)
       ELSE IF c = "\\" /\ Unescape(CharAt(s, j + 1)) # ""
       THEN ScanString(s, j + 2, chunk \o Unescape(CharAt(s, j + 1)))
       ELSE Fail

RECURSIVE ScanOnce(_, _)
RECURSIVE ObjectMembers(_, _, _)
RECURSIVE ArrayItems(_, _, _)

\* JSONObject: i is the position of the opening quote of the next key
ObjectMembers(s, i, m) ==
    LET key == ScanString(s, i + 1, "")
        colon == SkipWs(s, key.end)
        value == ScanOnce(s, SkipWs(s, colon + 1))
        after == SkipWs(s, value.end)
        next == SkipWs(s, after + 1)
    IN IF CharAt(s, i) # "\"" THEN Fail
       ELSE IF ~key.ok THEN Fail
       ELSE IF CharAt(s, colon) # ":" THEN Fail
       ELSE IF ~value.ok THEN Fail
       ELSE IF CharAt(s, after) = "}"
       THEN Ok([t |-> "object", members |-> PutMember(m, key.v, value.v)], after + 1)
       ELSE IF CharAt(s, after) = ","
       THEN ObjectMembers(s, next, PutMember(m, key.v, value.v))
       ELSE Fail

\* JSONArray: i is the position of the next item
ArrayItems(s, i, items) ==
    LET value == ScanOnce(s, i)
        after == SkipWs(s, value.end)
    IN IF ~value.ok THEN Fail
       ELSE IF CharAt(s, after) = "]"
       THEN Ok([t |-> "array", items |-> Append(items, value.v)], after + 1)
       ELSE IF CharAt(s, after) = ","
       THEN ArrayItems(s, SkipWs(s, after + 1), Append(items, value.v))
       ELSE Fail

\* scanner.py_make_scanner: _scan_once
ScanOnce(s, i) ==
    LET c == CharAt(s, i)
    IN IF c = "" THEN Fail
       ELSE IF c = "\"" THEN
            LET r == ScanString(s, i + 1, "")
            IN IF r.ok THEN Ok([t |-> "string", s |-> r.v], r.end) ELSE Fail
       ELSE IF c = "{" THEN
            IF CharAt(s, SkipWs(s, i + 1)) = "}"
            THEN Ok([t |-> "object", members |-> NoMembers], SkipWs(s, i + 1) + 1)
            ELSE ObjectMembers(s, SkipWs(s, i + 1), NoMembers)
       ELSE IF c = "[" THEN
            IF CharAt(s, SkipWs(s, i + 1)) = "]"
            THEN Ok([t |-> "array", items |-> <<>>], SkipWs(s, i + 1) + 1)
            ELSE ArrayItems(s, SkipWs(s, i + 1), <<>>)
       ELSE IF OccursAt(s, "null", i) THEN Ok([t |-> "const", s |-> "null"], i + 4)
       ELSE IF OccursAt(s, "true", i) THEN Ok([t |-> "const", s |-> "true"], i + 4)
       ELSE IF OccursAt(s, "false", i) THEN Ok([t |-> "const", s |-> "false"], i + 5)
       ELSE IF NumberEnd(s, i) # 0
       THEN Ok([t |-> "number", s |-> SubSeq(s, i, NumberEnd(s, i) - 1)], NumberEnd(s, i))
       ELSE IF OccursAt(s, "NaN", i) THEN Ok([t |-> "const", s |-> "NaN"], i + 3)
       ELSE IF OccursAt(s, "Infinity", i) THEN Ok([t |-> "const", s |-> "Infinity"], i + 8)
       ELSE IF OccursAt(s, "-Infinity", i) THEN Ok([t |-> "const", s |-> "-Infinity"], i + 9)
       ELSE Fail

\* JSONDecoder.decode: one value, surrounded by whitespace only.  The result
\* has ok = FALSE where json.loads raises JSONDecodeError.
JsonLoads(s) ==
    LET r == ScanOnce(s, SkipWs(s, 1))
    IN IF r.ok /\ SkipWs(s, r.end) = Len(s) + 1 THEN [ok |-> TRUE, v |-> r.v]
       ELSE [ok |-> FALSE, v |-> [t |-> "none"]]

\* `field in config` of verify_generated_config.  It raises TypeError on a
\* number, null, true or false, which the function catches and answers False.
FieldIn(field, cfg) ==
    CASE cfg.t = "object" -> field \in DOMAIN cfg.members
      [] cfg.t = "array" ->
            \E i \in 1..Len(cfg.items) : cfg.items[i].t = "string" /\ cfg.items[i].s = field
      [] cfg.t = "string" -> Contains(cfg.s, field)
      [] OTHER -> FALSE

required_fields == <<"name", "dockerComposeFile", "service", "workspaceFolder">>

---------------------------------------------------------------------------
(* Files, the process environment and the constants of the script *)

Absent == [exists |-> FALSE, text |-> ""]

File(text) == [exists |-> TRUE, text |-> text]

WORKSPACE_TOKEN == "__WORKSPACE_NAME__"

DIAMOND_TOKEN == "__DIAMOND_NAME__"

\* the defaults with a hyphen in the workspace name
default_content_hyphen ==
    "WORKSPACE_NAME=diamonds-project\n" \o
    "DIAMOND_NAME=ExampleDiamond\n"

default_content ==
    "# Diamonds DevContainer Configuration\n" \o
    "# Generated automatically - customize as needed\n" \o
    "\n" \o
    "# Project Identity\n" \o
    "WORKSPACE_NAME=diamonds_project\n" \o
    "DIAMOND_NAME=ExampleDiamond\n" \o
    "\n" \o
    "# Vault Configuration\n" \o
    "VAULT_COMMAND=server -dev -dev-root-token-id=root -dev-listen-address=0.0.0.0:8200\n" \o
    "VAULT_PORT=8200\n" \o
    "\n" \o
    "# Port Mappings\n" \o
    "HARDHAT_PORT=8545\n" \o
    "ADDITIONAL_BLOCKCHAIN_PORT=8556\n" \o
    "FRONTEND_PORT=3001\n" \o
    "API_PORT=5001\n" \o
    "DOC_PORT=8081\n"

EmptyEnviron == [k \in {} |-> ""]

\* os.environ[key] = value raises on a name that putenv cannot take
PutenvOk(key) == key # "" /\ ~Contains(key, "=")

Putenv(env, key, value) == [k \in DOMAIN env \cup {key} |-> IF k = key THEN value ELSE env[k]]

\* for key, value in env_vars.items(): os.environ[key] = value
\* stops at the first assignment that raises, the earlier ones stay
RECURSIVE ExportAll(_, _, _)
ExportAll(env, d, i) ==
    IF i > Len(d) THEN [ok |-> TRUE, env |-> env]
    ELSE IF ~PutenvOk(d[i].key) THEN [ok |-> FALSE, env |-> env]
    ELSE ExportAll(Putenv(env, d[i].key, d[i].value), d, i + 1)

\* a check of the characters alone, which lets the empty name through
IsValidIdentifierCharsOnly(name) ==
    \A i \in 1..Len(name) : CharAt(name, i) \in Letters \cup Digits \cup {"_", "-"}

\* the WORKSPACE_NAME check: "must be valid for Docker"
IsValidIdentifier(name) == IsAlnum(Replace(Replace(name, "_", ""), "-", ""))

\* "Replace placeholders"
Render(template, workspace, diamond) ==
    Replace(Replace(template, WORKSPACE_TOKEN, workspace), DIAMOND_TOKEN, diamond)

\* what verify_generated_config answers for the text it reads back
AllRequiredIn(cfg) == \A i \in 1..Len(required_fields) : FieldIn(required_fields[i], cfg)

---------------------------------------------------------------------------
(* The inputs of a run *)

RECURSIVE StringsUpTo(_, _)
StringsUpTo(alphabet, n) ==
    IF n = 0 THEN {""}
    ELSE LET shorter == StringsUpTo(alphabet, n - 1)
         IN shorter \cup {s \o c : s \in shorter, c \in alphabet}

RECURSIVE TextsUpTo(_, _)
TextsUpTo(lines, n) ==
    IF n = 0 THEN {""}
    ELSE LET shorter == TextsUpTo(lines, n - 1)
         IN shorter \cup {t \o l \o "\n" : t \in shorter, l \in lines}

IdAlphabet == {"a", "Z", "7", "_", "-", "!", " "}

EnvLines ==
    { "WORKSPACE_NAME=ws1",
      " WORKSPACE_NAME = \"ws-2\" ",
      "DIAMOND_NAME='Gem'",
      "# WORKSPACE_NAME=no",
      "export",
      "K=\"",
      "=v",
      "OPT='a=b\"" }

TemplateOk ==
    "{\"name\":\"__WORKSPACE_NAME__\",\"dockerComposeFile\":\"docker-compose.yml\"," \o
    "\"service\":\"devcontainer\",\"workspaceFolder\":\"/workspaces/__WORKSPACE_NAME__\"," \o
    "\"remoteEnv\":{\"DIAMOND_NAME\":\"__DIAMOND_NAME__\"}}\n"

TemplateShort == "{\"name\":\"__WORKSPACE_NAME__\",\"service\":\"__DIAMOND_NAME__\"}"

TemplateBroken == "{\"name\":\"__WORKSPACE_NAME__\",}"

BaseTemplates == {Absent, File(TemplateOk), File(TemplateBroken)}

Templates ==
    BaseTemplates \cup
    { File(TemplateShort),
      File("[\"name\",\"dockerComposeFile\",\"service\",\"workspaceFolder\",\"__WORKSPACE_NAME__\",\"__DIAMOND_NAME__\"]"),
      File("\"name dockerComposeFile service workspaceFolder __WORKSPACE_NAME__ __DIAMOND_NAME__\""),
      File("[\"__WORKSPACE__WORKSPACE_NAME__NAME__\", \"__DIAMOND_NAME__\"]"),
      File(" __DIAMOND_NAME__ ") }

EnvFiles ==
    { Absent,
      File(""),
      File("WORKSPACE_NAME=proj-1\nDIAMOND_NAME=Gem\n"),
      File("WORKSPACE_NAME=__DIAMOND_NAME__\nDIAMOND_NAME=Gem\n"),
      File("WORKSPACE_NAME=ws\nDIAMOND_NAME=__WORKSPACE_NAME__\n"),
      File("WORKSPACE_NAME=w_1\nDIAMOND_NAME=null\n"),
      File("WORKSPACE_NAME=My Project!\n"),
      File("DIAMOND_NAME=\n"),
      File("DIAMOND_NAME=a\"b\n"),
      File("DIAMOND_NAME=Gem\n=v\nWORKSPACE_NAME=ws\n") }

OutFiles == {Absent, File("stale")}

Inherited == [k \in {"WORKSPACE_NAME", "HOME"} |-> "inherited"]

---------------------------------------------------------------------------
(* The script *)

NoConfig == [t |-> "none"]

NoneYet == [set |-> FALSE, file |-> Absent]

InitRun(env, template, out, inherited) ==
    /\ pc = "load"
    /\ envFile = env
    /\ templateFile = template
    /\ outFile = out
    /\ environ = inherited
    /\ env_vars = EmptyDict
    /\ workspace_name = ""
    /\ diamond_name = ""
    /\ output = ""
    /\ config = NoConfig
    /\ verified = "unset"
    /\ exitStatus = -1
    /\ fault = "none"
    /\ written = FALSE
    /\ run = 1
    /\ envAtStart = env
    /\ outAtStart = out
    /\ environAtStart = inherited
    /\ lastGood = NoneYet

Init ==
    \/ \E env \in EnvFiles, template \in Templates, out \in OutFiles :
          InitRun(env, template, out, EmptyEnviron)
    \/ \E env \in EnvFiles :
          InitRun(env, File(TemplateOk), Absent, Inherited)
    \/ \E v \in StringsUpTo(IdAlphabet, MaxIdLen) :
          InitRun(File("WORKSPACE_NAME=" \o v \o "\n"), File(TemplateShort), Absent, EmptyEnviron)
    \/ \E text \in TextsUpTo(EnvLines, MaxLines) :
          InitRun(File(text), File(TemplateShort), Absent, EmptyEnviron)

\* sys.exit(status), or the process ending after main() returned
Exit(status, why) ==
    /\ pc' = "exited"
    /\ exitStatus' = status
    /\ fault' = why

\* load_env_file: `if not env_path.exists()`
load_env_file_exists ==
    /\ pc = "load"
    /\ pc' = IF envFile.exists THEN "read_env" ELSE "create_default_env"
    /\ UNCHANGED <<envFile, templateFile, outFile, environ, env_vars, workspace_name,
                   diamond_name, output, config, verified, exitStatus, fault, written,
                   run, envAtStart, outAtStart, environAtStart, lastGood>>

\* create_default_env: the write succeeds, or it raises before or after the
\* file was opened for writing
create_default_env ==
    /\ pc = "create_default_env"
    /\ \/ /\ envFile' = File(default_content)
          /\ pc' = "read_env"
          /\ UNCHANGED <<exitStatus, fault>>
       \/ /\ envFile' \in {envFile, File("")}
          /\ Exit(1, "env_create")
    /\ UNCHANGED <<templateFile, outFile, environ, env_vars, workspace_name,
                   diamond_name, output, config, verified, written, run,
                   envAtStart, outAtStart, environAtStart, lastGood>>

\* load_env_file: the try block that reads and parses the file
load_env_file ==
    /\ pc = "read_env"
    /\ \/ /\ env_vars' = ParseEnv(envFile.text)
          /\ pc' = "generate"
          /\ UNCHANGED <<exitStatus, fault>>
       \/ /\ Exit(1, "env_read")
          /\ UNCHANGED env_vars
    /\ UNCHANGED <<envFile, templateFile, outFile, environ, workspace_name,
                   diamond_name, output, config, verified, written, run,
                   envAtStart, outAtStart, environAtStart, lastGood>>

\* generate_devcontainer: the values with defaults and the identifier check
generate_validate ==
    /\ pc = "generate"
    /\ workspace_name' = Get(env_vars, "WORKSPACE_NAME", "diamonds_project")
    /\ diamond_name' = Get(env_vars, "DIAMOND_NAME", "ExampleDiamond")
    /\ IF IsValidIdentifier(workspace_name')
       THEN pc' = "template" /\ UNCHANGED <<exitStatus, fault>>
       ELSE Exit(1, "identifier")
    /\ UNCHANGED <<envFile, templateFile, outFile, environ, env_vars,
                   output, config, verified, written, run,
                   envAtStart, outAtStart, environAtStart, lastGood>>

\* generate_devcontainer: the template check, the read and the substitution
generate_render ==
    /\ pc = "template"
    /\ IF ~templateFile.exists
       THEN Exit(1, "template_missing") /\ UNCHANGED output
       ELSE \/ /\ output' = Render(templateFile.text, workspace_name, diamond_name)
               /\ pc' = "validate_json"
               /\ UNCHANGED <<exitStatus, fault>>
            \/ /\ Exit(1, "template_read")
               /\ UNCHANGED output
    /\ UNCHANGED <<envFile, templateFile, outFile, environ, env_vars, workspace_name,
                   diamond_name, config, verified, written, run,
                   envAtStart, outAtStart, environAtStart, lastGood>>

\* the validation without its sys.exit(1)
generate_validate_json_no_exit ==
    /\ pc = "validate_json"
    /\ pc' = "open_output"
    /\ UNCHANGED <<envFile, templateFile, outFile, environ, env_vars, workspace_name,
                   diamond_name, output, config, verified, exitStatus, fault, written,
                   run, envAtStart, outAtStart, environAtStart, lastGood>>

\* generate_devcontainer: "Validate JSON"
generate_validate_json ==
    /\ pc = "validate_json"
    /\ IF JsonLoads(output).ok
       THEN pc' = "open_output" /\ UNCHANGED <<exitStatus, fault>>
       ELSE Exit(1, "json")
    /\ UNCHANGED <<envFile, templateFile, outFile, environ, env_vars, workspace_name,
                   diamond_name, output, config, verified, written, run,
                   envAtStart, outAtStart, environAtStart, lastGood>>

\* open(output_path, 'a'): the earlier content stays
generate_open_output_append ==
    /\ pc = "open_output"
    /\ \/ /\ outFile' = File(outFile.text)
          /\ pc' = "write_output"
          /\ UNCHANGED <<exitStatus, fault>>
       \/ /\ Exit(1, "write")
          /\ UNCHANGED outFile
    /\ UNCHANGED <<envFile, templateFile, environ, env_vars, workspace_name,
                   diamond_name, output, config, verified, written, run,
                   envAtStart, outAtStart, environAtStart, lastGood>>

\* generate_devcontainer: open(output_path, 'w') truncates the file
generate_open_output ==
    /\ pc = "open_output"
    /\ \/ /\ outFile' = File("")
          /\ pc' = "write_output"
          /\ UNCHANGED <<exitStatus, fault>>
       \/ /\ Exit(1, "write")
          /\ UNCHANGED outFile
    /\ UNCHANGED <<envFile, templateFile, environ, env_vars, workspace_name,
                   diamond_name, output, config, verified, written, run,
                   envAtStart, outAtStart, environAtStart, lastGood>>

\* f.write(template): the text before the substitution is written
generate_write_output_template ==
    /\ pc = "write_output"
    /\ \/ /\ outFile' = File(outFile.text \o templateFile.text)
          /\ written' = TRUE
          /\ pc' = "export"
          /\ UNCHANGED <<exitStatus, fault>>
       \/ /\ Exit(1, "write")
          /\ UNCHANGED <<outFile, written>>
    /\ UNCHANGED <<envFile, templateFile, environ, env_vars, workspace_name,
                   diamond_name, output, config, verified, run,
                   envAtStart, outAtStart, environAtStart, lastGood>>

\* generate_devcontainer: f.write(output)
generate_write_output ==
    /\ pc = "write_output"
    /\ \/ /\ outFile' = File(outFile.text \o output)
          /\ written' = TRUE
          /\ pc' = "export"
          /\ UNCHANGED <<exitStatus, fault>>
       \/ /\ Exit(1, "write")
          /\ UNCHANGED <<outFile, written>>
    /\ UNCHANGED <<envFile, templateFile, environ, env_vars, workspace_name,
                   diamond_name, output, config, verified, run,
                   envAtStart, outAtStart, environAtStart, lastGood>>

\* generate_devcontainer: the assignments to os.environ; an exception here
\* reaches `except Exception` of __main__
generate_export ==
    /\ pc = "export"
    /\ LET named == Putenv(Putenv(environ, "WORKSPACE_NAME", workspace_name),
                           "DIAMOND_NAME", diamond_name)
           all == ExportAll(named, env_vars, 1)
       IN /\ environ' = all.env
          /\ IF all.ok
             THEN pc' = "verify" /\ UNCHANGED <<exitStatus, fault>>
             ELSE Exit(1, "export")
    /\ UNCHANGED <<envFile, templateFile, outFile, env_vars, workspace_name,
                   diamond_name, output, config, verified, written, run,
                   envAtStart, outAtStart, environAtStart, lastGood>>

\* verify_generated_config, and main up to its end: the answer only chooses
\* the message that is logged
verify_generated_config ==
    /\ pc = "verify"
    /\ \/ LET r == JsonLoads(outFile.text)
          IN /\ outFile.exists
             /\ config' = IF r.ok THEN r.v ELSE NoConfig
             /\ verified' = IF r.ok /\ AllRequiredIn(r.v) THEN "True" ELSE "False"
       \/ /\ config' = NoConfig
          /\ verified' = "False"
    /\ Exit(0, "none")
    /\ lastGood' = [set |-> TRUE, file |-> outFile]
    /\ UNCHANGED <<envFile, templateFile, outFile, environ, env_vars, workspace_name,
                   diamond_name, output, written, run,
                   envAtStart, outAtStart, environAtStart>>

\* __main__: except KeyboardInterrupt
KeyboardInterrupt ==
    /\ pc # "exited"
    /\ Exit(1, "interrupt")
    /\ UNCHANGED <<envFile, templateFile, outFile, environ, env_vars, workspace_name,
                   diamond_name, output, config, verified, written, run,
                   envAtStart, outAtStart, environAtStart, lastGood>>

\* the script is started again: a new process, with the environment its
\* parent hands down and the files the earlier run left
main ==
    /\ pc = "exited"
    /\ run < MaxRuns
    /\ run' = run + 1
    /\ pc' = "load"
    /\ environ' = environAtStart
    /\ env_vars' = EmptyDict
    /\ workspace_name' = ""
    /\ diamond_name' = ""
    /\ output' = ""
    /\ config' = NoConfig
    /\ verified' = "unset"
    /\ exitStatus' = -1
    /\ fault' = "none"
    /\ written' = FALSE
    /\ envAtStart' = envFile
    /\ outAtStart' = outFile
    /\ UNCHANGED <<envFile, templateFile, outFile, environAtStart, lastGood>>

Next ==
    \/ load_env_file_exists
    \/ create_default_env
    \/ load_env_file
    \/ generate_validate
    \/ generate_render
    \/ generate_validate_json
    \/ generate_open_output
    \/ generate_write_output
    \/ generate_export
    \/ verify_generated_config
    \/ KeyboardInterrupt
    \/ main

Spec == Init /\ [][Next]_vars

---------------------------------------------------------------------------
(* Properties *)

\* positions of the script where the locals of generate_devcontainer hold
\* the values of the current run
AfterValidate == {"template", "validate_json", "open_output", "write_output", "export", "verify"}

AfterRender == {"validate_json", "open_output", "write_output", "export", "verify"}

AfterCreate == {"read_env", "generate"} \cup AfterValidate

AfterLoad == {"generate"} \cup AfterValidate

Succeeded == pc = "exited" /\ exitStatus = 0

\* every token of the template replaced by its value in one pass over the
\* template: the text a value brings in is never looked at
RECURSIVE SubstituteAt(_, _, _, _)
SubstituteAt(t, workspace, diamond, i) ==
    LET w == Find(t, WORKSPACE_TOKEN, i)
        d == Find(t, DIAMOND_TOKEN, i)
    IN IF w = 0 /\ d = 0 THEN From(t, i)
       ELSE IF d = 0 \/ (w # 0 /\ w < d)
       THEN SubSeq(t, i, w - 1) \o workspace
               \o SubstituteAt(t, workspace, diamond, w + Len(WORKSPACE_TOKEN))
       ELSE SubSeq(t, i, d - 1) \o diamond
               \o SubstituteAt(t, workspace, diamond, d + Len(DIAMOND_TOKEN))

\* C1: for a template with both tokens and a workspace value that passed the
\* identifier check, the substituted text holds neither token, and holds the
\* workspace value and the diamond value where the tokens stood
C1_NoTokenLeft ==
    (/\ pc \in AfterRender
     /\ Contains(templateFile.text, WORKSPACE_TOKEN)
     /\ Contains(templateFile.text, DIAMOND_TOKEN))
    => /\ Count(output, WORKSPACE_TOKEN) = 0
       /\ Count(output, DIAMOND_TOKEN) = 0
       /\ output = SubstituteAt(templateFile.text, workspace_name, diamond_name, 1)

OnlyIdChars(v) == \A i \in 1..Len(v) : CharAt(v, i) \in Letters \cup Digits \cup {"_", "-"}

HasAlnum(v) == \E i \in 1..Len(v) : CharAt(v, i) \in Letters \cup Digits

\* C2 as stated: WORKSPACE_NAME is accepted exactly when each of its
\* characters is a letter, a digit, '_' or '-' (the empty value and values of
\* '_' and '-' alone included), and a rejected value ends the run with status 1
C2_AcceptsIffOnlyIdChars ==
    /\ pc \in AfterValidate => OnlyIdChars(workspace_name)
    /\ fault = "identifier" =>
          ~OnlyIdChars(workspace_name) /\ pc = "exited" /\ exitStatus = 1

\* C2 amended: WORKSPACE_NAME is accepted exactly when each of its characters
\* is a letter, a digit, '_' or '-' and at least one of them is a letter or a
\* digit; a rejected value ends the run with status 1
C2_AcceptsIffIdCharsAndAlnum ==
    /\ pc \in AfterValidate => OnlyIdChars(workspace_name) /\ HasAlnum(workspace_name)
    /\ fault = "identifier" =>
          /\ ~(OnlyIdChars(workspace_name) /\ HasAlnum(workspace_name))
          /\ pc = "exited"
          /\ exitStatus = 1

\* a value made of '_' and '-' alone was rejected
C2_Witness ==
    /\ fault = "identifier"
    /\ exitStatus = 1
    /\ workspace_name # ""
    /\ OnlyIdChars(workspace_name)

\* the reference parser of C3: a value loses its quotes when it is enclosed
\* in one pair of matching quotes
RefUnquote(value) ==
    IF /\ Len(value) >= 2
       /\ CharAt(value, 1) \in {"\"", "'"}
       /\ CharAt(value, Len(value)) = CharAt(value, 1)
    THEN SubSeq(value, 2, Len(value) - 1)
    ELSE value

RECURSIVE RefParse(_, _)
RefParse(lines, n) ==
    IF n = 0 THEN [k \in {} |-> ""]
    ELSE LET before == RefParse(lines, n - 1)
             line == Strip(lines[n])
             eq == Find(line, "=", 1)
             key == Strip(SubSeq(line, 1, eq - 1))
         IN IF line = "" \/ CharAt(line, 1) = "#" \/ eq = 0 THEN before
            ELSE [k \in DOMAIN before \cup {key} |->
                     IF k = key THEN RefUnquote(Strip(From(line, eq + 1))) ELSE before[k]]

\* the mapping a dict holds, without the order of its keys
AsMapping(d) == [k \in {d[i].key : i \in 1..Len(d)} |-> Lookup(d, k)]

\* C3: load_env_file returns the mapping of the reference parser (blank
\* lines, '#' lines and lines without '=' give nothing; key and value are
\* trimmed around the first '='; one pair of matching surrounding quotes is
\* removed from the value; the last line of a key wins)
C3_LoadsReferenceMapping ==
    pc = "generate" =>
        AsMapping(env_vars) = RefParse(SplitLines(envFile.text), Len(SplitLines(envFile.text)))

HardFailures ==
    {"env_read", "env_create", "identifier", "template_missing", "template_read",
     "json", "write", "interrupt"}

\* C4: a run exits with status 1 exactly when a hard failure occurred (.env
\* unreadable or not creatable, invalid identifier, template missing or
\* unreadable, invalid JSON, output not writable, interrupt) and with status 0
\* otherwise; no run that has written the output file exits with status 1
\* unless it was interrupted
C4_ExitOneIffHardFailure ==
    pc = "exited" =>
        /\ exitStatus \in {0, 1}
        /\ exitStatus = 1 <=> fault \in HardFailures
        /\ (written /\ fault # "interrupt") => exitStatus = 0

\* C5: verify_generated_config answers True exactly when the file it read
\* back parsed to a JSON object with the four required keys; when it answers
\* False the run still exits with status 0 and the written file stays
C5_VerifiedIffObjectWithKeys ==
    (pc = "exited" /\ verified # "unset") =>
        /\ verified = "True" <=>
              /\ config.t = "object"
              /\ \A i \in 1..Len(required_fields) : required_fields[i] \in DOMAIN config.members
        /\ verified = "False" => exitStatus = 0 /\ outFile = File(output)

\* C6: the file holds exactly the text that was validated, and the JSON
\* value verify_generated_config reads back is the value of that text
C6_RoundTrip ==
    /\ (written /\ (pc \in {"export", "verify"} \/ Succeeded)) =>
          outFile = File(output) /\ JsonLoads(output).ok
    /\ (Succeeded /\ config # NoConfig) => config = JsonLoads(output).v

\* a run wrote a file with substituted values and read the same object back
C6_Witness ==
    /\ Succeeded
    /\ config.t = "object"
    /\ output # templateFile.text
    /\ config = JsonLoads(outFile.text).v

DefaultMapping ==
    << [key |-> "WORKSPACE_NAME", value |-> "diamonds_project"],
       [key |-> "DIAMOND_NAME", value |-> "ExampleDiamond"],
       [key |-> "VAULT_COMMAND",
        value |-> "server -dev -dev-root-token-id=root -dev-listen-address=0.0.0.0:8200"],
       [key |-> "VAULT_PORT", value |-> "8200"],
       [key |-> "HARDHAT_PORT", value |-> "8545"],
       [key |-> "ADDITIONAL_BLOCKCHAIN_PORT", value |-> "8556"],
       [key |-> "FRONTEND_PORT", value |-> "3001"],
       [key |-> "API_PORT", value |-> "5001"],
       [key |-> "DOC_PORT", value |-> "8081"] >>

C7_State ==
    envAtStart = Absent =>
        /\ pc \in AfterCreate => envFile.exists /\ envFile.text # ""
        /\ pc \in AfterLoad => env_vars = DefaultMapping
        /\ pc \in AfterRender =>
              /\ Count(output, WORKSPACE_TOKEN) = 0
              /\ output = SubstituteAt(templateFile.text, "diamonds_project", "ExampleDiamond", 1)

C7_Step ==
    (envAtStart = Absent /\ pc \in AfterCreate) => envFile' = envFile

\* C7: when .env is absent at the start of a run the default file is created
\* before it is read, the mapping returned is the one of the defaults, every
\* __WORKSPACE_NAME__ of the template becomes diamonds_project, and the
\* created file stays as it is for the rest of the run, also when the run
\* aborts later
C7_DefaultsWhenAbsent == [] C7_State /\ [][C7_Step]_vars

\* a run that created the default .env aborted later and the file is there
C7_Witness ==
    /\ envAtStart = Absent
    /\ pc = "exited"
    /\ fault \in {"template_missing", "json"}
    /\ env_vars = DefaultMapping
    /\ envFile.exists

C8_State ==
    Succeeded =>
        outFile = File(Replace(Replace(templateFile.text, "__WORKSPACE_NAME__", workspace_name),
                               "__DIAMOND_NAME__", diamond_name))

C8_Step ==
    (pc = "verify" /\ pc' = "exited" /\ exitStatus' = 0 /\ lastGood.set)
        => outFile' = lastGood.file

\* C8: after a successful run the output file is the substituted template,
\* whatever the file held before, and a successful run after a successful
\* run with the same .env and template leaves the same content
C8_OutputIsFunctionOfInputs == [] C8_State /\ [][C8_Step]_vars

\* a second successful run found the file of the first and left the same
C8_Witness ==
    /\ Succeeded
    /\ run = 2
    /\ lastGood.set
    /\ outAtStart.exists
    /\ outAtStart.text # "stale"
    /\ outFile = outAtStart
    /\ Contains(templateFile.text, WORKSPACE_TOKEN)

\* C9: an abort for an invalid identifier, a missing template or invalid JSON
\* happens before any write: exit status 1, output file and environment as
\* at the start; the output file only ever changes to text that has parsed
\* as JSON (through the truncation by open), and the environment only
\* changes after the write
C9_AbortsBeforeWrite ==
    /\ (pc = "exited" /\ fault \in {"identifier", "template_missing", "json"}) =>
          /\ exitStatus = 1
          /\ outFile = outAtStart
          /\ environ = environAtStart
          /\ ~written
    /\ outFile # outAtStart => JsonLoads(output).ok /\ outFile \in {File(""), File(output)}
    /\ written => JsonLoads(output).ok
    /\ environ # environAtStart => written /\ outFile = File(output)

\* a run aborted on invalid JSON and left the earlier output file alone
C9_Witness ==
    /\ pc = "exited"
    /\ fault = "json"
    /\ exitStatus = 1
    /\ outAtStart = File("stale")
    /\ outFile = outAtStart
    /\ environ = environAtStart

\* C10: each substituted value is the mapping's value when the key is in the
\* mapping, the empty value included, and the default literal only when the
\* key is absent; once generate_devcontainer has returned, the environment
\* holds WORKSPACE_NAME and DIAMOND_NAME with the substituted values and
\* every key of the mapping with its value
C10_ValuesAndEnvironment ==
    /\ pc \in AfterValidate =>
          /\ \A i \in 1..Len(env_vars) :
                /\ env_vars[i].key = "WORKSPACE_NAME" => workspace_name = env_vars[i].value
                /\ env_vars[i].key = "DIAMOND_NAME" => diamond_name = env_vars[i].value
          /\ (\A i \in 1..Len(env_vars) : env_vars[i].key # "WORKSPACE_NAME")
                => workspace_name = "diamonds_project"
          /\ (\A i \in 1..Len(env_vars) : env_vars[i].key # "DIAMOND_NAME")
                => diamond_name = "ExampleDiamond"
    /\ (pc = "verify" \/ Succeeded) =>
          /\ {"WORKSPACE_NAME", "DIAMOND_NAME"} \subseteq DOMAIN environ
          /\ environ["WORKSPACE_NAME"] = workspace_name
          /\ environ["DIAMOND_NAME"] = diamond_name
          /\ \A i \in 1..Len(env_vars) :
                /\ env_vars[i].key \in DOMAIN environ
                /\ environ[env_vars[i].key] = env_vars[i].value

\* a run substituted an empty DIAMOND_NAME and exported it
C10_Witness ==
    /\ Succeeded
    /\ \E i \in 1..Len(env_vars) : env_vars[i].key = "DIAMOND_NAME" /\ env_vars[i].value = ""
    /\ diamond_name = ""
    /\ environ["DIAMOND_NAME"] = ""

====
